---------------------------- MODULE Spec2Model ----------------------------
(***************************************************************************)
(* Model of the tennis-ball spin tracker firmware (WebSocket streaming     *)
(* variant with light sleep): the control loop loop(), the WebSocket event *)
(* handler onWsEvent(), and the light-sleep entry / wake procedures.       *)
(*                                                                         *)
(* Numbers.  The firmware computes in 32-bit floats; the model computes in *)
(* fixed point, rounding to nearest after every operation:                 *)
(*   gyro samples          deg/s (integers)                                *)
(*   filtered gyro, peaks  1/100 deg/s                                     *)
(*   RPM                   1/10 rpm                                        *)
(*   acceleration          1/1000 g                                        *)
(*   rad/s quantities      1e-6 rad/s                                      *)
(*   quaternion, sin, cos  1e-4                                            *)
(*   dt                    microseconds                                    *)
(* The 32-bit counters millis() and micros() keep their width: a counter   *)
(* value is a pair <<hi, lo>> of 16-bit halves and differences are taken   *)
(* modulo 2^32.                                                            *)
(***************************************************************************)
EXTENDS Integers, Sequences, FiniteSets, TLC

-----------------------------------------------------------------------------
(* Integer helpers *)

Abs(x) == IF x < 0 THEN -x ELSE x

Max2(a, b) == IF a >= b THEN a ELSE b

\* a / b rounded to the nearest integer (halves away from zero), b > 0
RDiv(a, b) == IF a >= 0 THEN (2 * a + b) \div (2 * b) ELSE -((2 * (-a) + b) \div (2 * b))

\* a / b rounded to the nearest integer, halves to even (printf), a >= 0, b > 0
RDivEven(a, b) ==
    LET q == a \div b
        r == a % b
    IN  IF 2 * r > b THEN q + 1
        ELSE IF 2 * r < b THEN q
        ELSE IF q % 2 = 0 THEN q ELSE q + 1

RECURSIVE SqrtSearch(_, _, _)
SqrtSearch(n, lo, hi) ==
    IF lo >= hi THEN lo
    ELSE LET mid == (lo + hi + 1) \div 2
         IN  IF mid * mid <= n THEN SqrtSearch(n, mid, hi) ELSE SqrtSearch(n, lo, mid - 1)

\* sqrtf: the nearest integer to the square root of n, 0 <= n < 2^31
ISqrt(n) ==
    LET r == SqrtSearch(n, 0, 46340)
    IN  IF n - r * r > r THEN r + 1 ELSE r

RECURSIVE NormScale(_, _)
NormScale(m, s) == IF m \div s <= 26000 THEN s ELSE NormScale(m, s * 10)

\* sqrtf(x*x + y*y + z*z); large vectors are scaled down so the squares fit
Norm3(v) ==
    LET m == Max2(Abs(v[1]), Max2(Abs(v[2]), Abs(v[3])))
        s == NormScale(m, 1)
        a == RDiv(v[1], s)
        b == RDiv(v[2], s)
        c == RDiv(v[3], s)
    IN  ISqrt(a * a + b * b + c * c) * s

\* fabsf(x) + fabsf(y) + fabsf(z)
L1(v) == Abs(v[1]) + Abs(v[2]) + Abs(v[3])

-----------------------------------------------------------------------------
(* 32-bit unsigned counters: <<hi, lo>>, value hi * 2^16 + lo *)

B16 == 2^16

Huge == (32767 * B16) + (B16 - 1)

U32(n) == <<n \div B16, n % B16>>

\* a + n modulo 2^32, 0 <= n < 2^31
Add32(a, n) ==
    LET s == a[2] + (n % B16)
    IN  <<(a[1] + (n \div B16) + (s \div B16)) % B16, s % B16>>

\* a - b modulo 2^32 (the uint32_t difference)
Sub32(a, b) ==
    LET lo == a[2] - b[2]
        br == IF lo < 0 THEN 1 ELSE 0
    IN  <<(a[1] - b[1] - br + 2 * B16) % B16, (lo + B16) % B16>>

\* the value of a counter difference; differences of 2^31 and more compare
\* like Huge against every constant of the program
Val(d) == IF d[1] < 32768 THEN d[1] * B16 + d[2] ELSE Huge

\* a <= b as numbers, not modulo 2^32
Leq32(a, b) == a[1] < b[1] \/ (a[1] = b[1] /\ a[2] <= b[2])

Elapsed_Signed(a, b) == IF Leq32(b, a) THEN Val(Sub32(a, b)) ELSE 0 - Val(Sub32(b, a))

\* (uint32_t)(a - b) as a number
Elapsed(a, b) == Val(Sub32(a, b))

-----------------------------------------------------------------------------
(* Program constants *)

IMPACT_THRESH == 4000

IMPACT_COOLDOWN_MS == 200

MAX_SHOTS == 50

SLEEP_HOLD_MS == 3000

\* playSunriseAnimation: FRAMES frames, delay(33) after each
FRAMES == 36

Identity == <<10000, 0, 0, 0>>

SpinTypes == {"TOPSPIN", "BACKSPIN", "SIDE_L", "SIDE_R", "SLICE", "FLAT", "MIXED"}

\* a ShotEvent of the zero-initialised static array shots[]
NoShot == [timestamp |-> U32(0), peakRPM |-> 0, peakG |-> 0,
           gx |-> 0, gy |-> 0, gz |-> 0, spinType |-> ""]

-----------------------------------------------------------------------------
(* State *)

VARIABLES
    orient,           \* Quat orient, components in 1e-4
    filtG,            \* <<filtGx, filtGy, filtGz>>, 1/100 deg/s
    filtRPM,          \* 1/10 rpm
    sleepPending, btnPressStartMs, btnWasDown,
    gyroBias,         \* <<gyroBiasX, gyroBiasY, gyroBiasZ>>, 1e-6 rad/s
    lastUs, lastWsSendMs,
    clientCount,      \* uint8_t
    lastImpactMs, impactFlag,
    shots, shotCount,
    trackingPeak, peakTrackStartMs, peakRPMval, peakGval,
    peakGyro,         \* <<peakGx, peakGy, peakGz>>, 1/100 deg/s
    power,            \* "Active", "Sleeping" while halted in esp_light_sleep_start(),
                      \* or "Halted" in the endless loop of setup()
    now,              \* milliseconds of real time since the model's first state
    base,             \* <<millis(), micros()>> at the model's first state
    imu,              \* <<accel, gyro>>, the sample the last loop() read
    out,              \* the messages the last loop() handed to wsServer.broadcastTXT
    dtUs,             \* the dt the last loop() computed, microseconds
    probe,            \* the last direct call of a pure function: arguments and result
    hist              \* history of the run, read by the properties only

prog == <<orient, filtG, filtRPM, sleepPending, btnPressStartMs, btnWasDown,
          gyroBias, lastUs, lastWsSendMs, clientCount, lastImpactMs, impactFlag,
          shots, shotCount, trackingPeak, peakTrackStartMs, peakRPMval, peakGval,
          peakGyro>>

vars == <<prog, power, now, base, imu, out, dtUs, probe, hist>>

\* millis() and micros() at real time t
Millis(t) == Add32(base[1], t)

Micros(t) == Add32(base[2], 1000 * t)

-----------------------------------------------------------------------------
(* Quaternion math *)

\* sinf(x), x and the result in 1e-4: the Taylor series, term by term; the
\* products fit 32 bits for |x| up to 2 rad (2000 deg/s over the longest dt, 0.1 s,
\* give a half angle of 1.75 rad)
RECURSIVE SinTerms(_, _, _)
SinTerms(term, x2, k) ==
    IF k > 6 \/ term = 0 THEN 0
    ELSE term - SinTerms(RDiv(RDiv(term * x2, 2 * k * (2 * k + 1)), 10000), x2, k + 1)

SinQ(x) == SinTerms(x, RDiv(x * x, 10000), 1)

\* cosf(x), x and the result in 1e-4
RECURSIVE CosTerms(_, _, _)
CosTerms(term, x2, k) ==
    IF k > 6 \/ term = 0 THEN 0
    ELSE term - CosTerms(RDiv(RDiv(term * x2, (2 * k - 1) * 2 * k), 10000), x2, k + 1)

CosQ(x) == CosTerms(10000, RDiv(x * x, 10000), 1)

qmul(a, b) ==
    << RDiv(a[1]*b[1] - a[2]*b[2] - a[3]*b[3] - a[4]*b[4], 10000),
       RDiv(a[1]*b[2] + a[2]*b[1] + a[3]*b[4] - a[4]*b[3], 10000),
       RDiv(a[1]*b[3] - a[2]*b[4] + a[3]*b[1] + a[4]*b[2], 10000),
       RDiv(a[1]*b[4] + a[2]*b[3] - a[3]*b[2] + a[4]*b[1], 10000) >>

\* sqrtf(w*w + x*x + y*y + z*z), 1e-4
QLen(q) == ISqrt(q[1]*q[1] + q[2]*q[2] + q[3]*q[3] + q[4]*q[4])

qnorm(q) ==
    LET len == QLen(q)
    IN  IF len > 1
        THEN <<RDiv(q[1] * 10000, len), RDiv(q[2] * 10000, len),
               RDiv(q[3] * 10000, len), RDiv(q[4] * 10000, len)>>
        ELSE q

DeadZone_Inclusive(wmag) == wmag >= 100000

\* if (wmag > 0.10f), wmag in 1e-6 rad/s
DeadZone(wmag) == wmag > 100000

\* the first-order update q * (1, w dt / 2), left as it comes out
Integrate_FirstOrder(q, g, dt) ==
    LET dq == << 10000,
                 RDiv(RDiv(g[1], 1000) * RDiv(dt, 10), 20000),
                 RDiv(RDiv(g[2], 1000) * RDiv(dt, 10), 20000),
                 RDiv(RDiv(g[3], 1000) * RDiv(dt, 10), 20000) >>
    IN  IF DeadZone(Norm3(g)) THEN qmul(q, dq) ELSE q

\* loop(): "Integrate quaternion from angular velocity"; g in 1e-6 rad/s, dt in us
Integrate(q, g, dt) ==
    LET wmag == Norm3(g)
        wm   == RDiv(wmag, 1000)
        ha   == RDiv(RDiv(wm * RDiv(dt, 10), 1000), 20)
        sha  == SinQ(ha)
        dq   == << CosQ(ha),
                   RDiv(RDiv(g[1], 1000) * sha, wm),
                   RDiv(RDiv(g[2], 1000) * sha, wm),
                   RDiv(RDiv(g[3], 1000) * sha, wm) >>
    IN  IF DeadZone(wmag) THEN qnorm(qmul(q, dq)) ELSE q

-----------------------------------------------------------------------------
(* Spin classification *)

classifySpin_AtLeastHalf(g, rpm) ==
    LET agx == Abs(g[1])
        agy == Abs(g[2])
        agz == Abs(g[3])
        total == agx + agy + agz
    IN  IF rpm < 50 THEN "FLAT"
        ELSE IF total < 100 THEN "FLAT"
        ELSE IF 2 * agx >= total THEN (IF g[1] > 0 THEN "TOPSPIN" ELSE "BACKSPIN")
        ELSE IF 2 * agy >= total THEN (IF g[2] > 0 THEN "SIDE_R" ELSE "SIDE_L")
        ELSE IF 2 * agz >= total THEN "SLICE"
        ELSE "MIXED"

\* classifySpin(gx, gy, gz, rpm, out): g in 1/100 deg/s, rpm in 1/10 rpm
classifySpin(g, rpm) ==
    LET agx == Abs(g[1])
        agy == Abs(g[2])
        agz == Abs(g[3])
        total == agx + agy + agz
    IN  IF rpm < 50 THEN "FLAT"
        ELSE IF total < 100 THEN "FLAT"
        ELSE IF 2 * agx > total THEN (IF g[1] > 0 THEN "TOPSPIN" ELSE "BACKSPIN")
        ELSE IF 2 * agy > total THEN (IF g[2] > 0 THEN "SIDE_R" ELSE "SIDE_L")
        ELSE IF 2 * agz > total THEN "SLICE"
        ELSE "MIXED"

-----------------------------------------------------------------------------
(* Sensor filters *)

\* deg/s to rad/s: d * (M_PI / 180), result in 1e-6 rad/s
ToRad(d) == d * 17453 + RDiv(d * 2925, 10000)

\* y += alpha * (x - y), alpha = num / den
Ema(y, x, num, den) == y + RDiv(num * (x - y), den)

Ema3(y, x, num, den) ==
    <<Ema(y[1], x[1], num, den), Ema(y[2], x[2], num, den), Ema(y[3], x[3], num, den)>>

Stationary_Always(rawMag) == TRUE

\* if (rawMag < 0.15f), rawMag in 1e-6 rad/s
Stationary(rawMag) == rawMag < 150000

\* loop(): adaptive gyro bias estimation; raw in 1e-6 rad/s
BiasUpdate(bias, raw) ==
    IF Stationary(Norm3(raw)) THEN Ema3(bias, raw, 2, 1000) ELSE bias

-----------------------------------------------------------------------------
(* Telemetry messages: the fields of the two snprintf formats *)

\* "%.0f" of a value in 1/10
Fmt0(x) == IF x >= 0 THEN RDivEven(x, 10) ELSE -RDivEven(-x, 10)

\* "%.1f" of a value in 1/100 (gyro) or 1/1000 (g)
Fmt1(x, unit) == IF x >= 0 THEN RDivEven(x, unit \div 10) ELSE -RDivEven(-x, unit \div 10)

\* {"event":"shot","id":%d,"t":%lu,"rpm":%.0f,"peakG":%.1f,"gx":..,"type":"%s"}
ShotMsg(id, s) ==
    [event |-> "shot", id |-> id, t |-> s.timestamp, rpm |-> Fmt0(s.peakRPM),
     peakG |-> Fmt1(s.peakG, 1000),
     gx |-> Fmt1(s.gx, 100), gy |-> Fmt1(s.gy, 100), gz |-> Fmt1(s.gz, 100),
     type |-> s.spinType]

\* {"t":%lu,"ax":..,"gx":..,"qw":..,"rpm":%.0f,"spin":"%s","imp":%d}
SampleMsg(t, acc, fg, q, rpm, flag) ==
    [event |-> "sample", t |-> t, a |-> acc,
     gx |-> Fmt1(fg[1], 100), gy |-> Fmt1(fg[2], 100), gz |-> Fmt1(fg[3], 100),
     q |-> q, rpm |-> Fmt0(rpm), spin |-> classifySpin(fg, rpm),
     imp |-> IF flag THEN 1 ELSE 0]

-----------------------------------------------------------------------------
(* Initial state: the statics' initialisers, then setup() *)

\* History of the run, read by the properties only.
\*   step        what the last loop() did: "tick" (ran to its end), "sleep" (halted
\*               in light sleep), "wake" (resumed and returned)
\*   at          the time the last loop() started
\*   trig        the last loop() fired the impact trigger
\*   trigAt      the time of the last trigger (-1: none yet)
\*   hits        samples above the impact threshold so far
\*   unrecorded  triggers whose window has not been closed yet
\*   dropped     windows closed on a full log
\*   trigSinceSample  a trigger fired since the last sample message
\*   lastShotId  id of the last shot message (-1: none)
\*   cleared     clear_shots arrived since the last shot message
\*   heldSince   start time of the first of the consecutive loops that read the
\*               button down (-1: the last loop read it up)
\*   pressSeen   the same, forgotten on wake
\*   released    the last loop read the release of a button held this long (-1: no)
\*   pin         the button while the device sleeps: "held" since the sleep
\*               gesture, or "up" (also when the device is awake)
\*   clientsAtSleep  clientCount when sleep was last entered
\*   wokeNoConnect   no connect notification since the last wake
\*   sinceWake   loops run to their end since the last wake, at most 2 (-1: never slept)
\*   ignored     a text that is no command arrived since the last loop()
\*   sampleAt    the time of the last sample message (-1: none yet)
\*   sampleT     the t field of the last sample message
\*   cadenceRef  the later of sampleAt and the return of the last wake (-1: neither)
\*   imuOk       what M5.Imu.isEnabled() answered in setup()
\*   servers     the access point and the WebSocket server are up: started by
\*               setup() or wakeFromSleep(), not stopped since
\*   window      what each loop() since the last trigger measured, the loop() of the
\*               trigger first, up to the loop() that closes the window
\*   entry       while asleep: what enterLightSleep() had done after each of its calls
NoHist == [step |-> "setup", at |-> 0, trig |-> FALSE, trigAt |-> -1, hits |-> 0, unrecorded |-> 0,
           dropped |-> 0, trigSinceSample |-> FALSE, lastShotId |-> -1,
           cleared |-> FALSE, heldSince |-> -1, pressSeen |-> -1, released |-> -1,
           pin |-> "up",
           clientsAtSleep |-> 0, wokeNoConnect |-> FALSE, sinceWake |-> -1,
           ignored |-> FALSE, sampleAt |-> -1, sampleT |-> U32(0), cadenceRef |-> -1,
           imuOk |-> TRUE, servers |-> TRUE, entry |-> <<>>,
           window |-> <<>>]

\* no pure function called directly yet
NoProbe == [fn |-> "none"]

SetupPower_NoCheck(enabled) == "Active"

\* if (!M5.Imu.isEnabled()) { ... while (1) { delay(1000); } }
SetupPower(enabled) == IF enabled THEN "Active" ELSE "Halted"

\* the state setup() leaves: the statics at their initial values, and
\* lastUs = micros() on the last line, which a failed sensor check never reaches
SetupAt(b, enabled) ==
    /\ orient = Identity
    /\ filtG = <<0, 0, 0>>
    /\ filtRPM = 0
    /\ sleepPending = FALSE
    /\ btnPressStartMs = U32(0)
    /\ btnWasDown = FALSE
    /\ gyroBias = <<0, 0, 0>>
    /\ lastUs = IF enabled THEN b[2] ELSE U32(0)
    /\ lastWsSendMs = U32(0)
    /\ clientCount = 0
    /\ lastImpactMs = U32(0)
    /\ impactFlag = FALSE
    /\ shots = [i \in 0..(MAX_SHOTS - 1) |-> NoShot]
    /\ shotCount = 0
    /\ trackingPeak = FALSE
    /\ peakTrackStartMs = U32(0)
    /\ peakRPMval = 0
    /\ peakGval = 0
    /\ peakGyro = <<0, 0, 0>>
    /\ power = SetupPower(enabled)
    /\ now = 0
    /\ base = b
    /\ imu = <<<<0, 0, 0>>, <<0, 0, 0>>>>
    /\ out = <<>>
    /\ dtUs = 0
    /\ probe = NoProbe
    /\ hist = [NoHist EXCEPT !.imuOk = enabled, !.servers = enabled]

InitAt(b) == SetupAt(b, TRUE)

\* one turn of while (1) { delay(1000); }
HaltLoop ==
    /\ power = "Halted"
    /\ now' = now + 1000
    /\ UNCHANGED <<prog, power, base, imu, out, dtUs, probe, hist>>

-----------------------------------------------------------------------------
(* onWsEvent *)

\* WStype_CONNECTED: clientCount++ on a uint8_t
Connect ==
    /\ power = "Active"
    /\ clientCount' = (clientCount + 1) % 256
    /\ hist' = [hist EXCEPT !.wokeNoConnect = FALSE]
    /\ UNCHANGED <<out, orient, filtG, filtRPM, sleepPending, btnPressStartMs, btnWasDown,
                   gyroBias, lastUs, lastWsSendMs, lastImpactMs, impactFlag,
                   shots, shotCount, trackingPeak, peakTrackStartMs, peakRPMval,
                   peakGval, peakGyro, power, now, base, imu, dtUs, probe>>

ClientLeft_Unguarded(n) == (n + 255) % 256

\* if (clientCount > 0) clientCount--; on a uint8_t
ClientLeft(n) == IF n > 0 THEN n - 1 ELSE n

\* WStype_DISCONNECTED
Disconnect ==
    /\ power = "Active"
    /\ clientCount' = ClientLeft(clientCount)
    /\ UNCHANGED <<out, hist, orient, filtG, filtRPM, sleepPending, btnPressStartMs, btnWasDown,
                   gyroBias, lastUs, lastWsSendMs, lastImpactMs, impactFlag,
                   shots, shotCount, trackingPeak, peakTrackStartMs, peakRPMval,
                   peakGval, peakGyro, power, now, base, imu, dtUs, probe>>

ResetOrient_Prefix(q, payload) ==
    IF payload \in {"reset", "reset_all"} THEN Identity ELSE q

\* if (strcmp((char*)payload, "reset") == 0) orient = {1, 0, 0, 0};
ResetOrient(q, payload) == IF payload = "reset" THEN Identity ELSE q

ClearCount_OnReset(n, payload) == IF payload \in {"clear_shots", "reset"} THEN 0 ELSE n

\* if (strcmp((char*)payload, "clear_shots") == 0) shotCount = 0;
ClearCount(n, payload) == IF payload = "clear_shots" THEN 0 ELSE n

\* WStype_TEXT with the given payload
Text(payload) ==
    /\ power = "Active"
    /\ orient' = ResetOrient(orient, payload)
    /\ shotCount' = ClearCount(shotCount, payload)
    /\ hist' = [hist EXCEPT !.cleared = (@ \/ payload = "clear_shots"),
                            !.ignored = (@ \/ payload \notin {"reset", "clear_shots"})]
    /\ UNCHANGED <<out, filtG, filtRPM, sleepPending, btnPressStartMs, btnWasDown,
                   gyroBias, lastUs, lastWsSendMs, clientCount, lastImpactMs, impactFlag,
                   shots, trackingPeak, peakTrackStartMs, peakRPMval,
                   peakGval, peakGyro, power, now, base, imu, dtUs, probe>>

-----------------------------------------------------------------------------
(* loop(): one iteration, delta ms after the previous step, reading button   *)
(* level btn, accelerometer acc (1/1000 g) and gyroscope gyro (deg/s)        *)

ImpactTrigger_NoCooldown(accelMag, nowMs, last) == accelMag > IMPACT_THRESH

\* the impact trigger condition
ImpactTrigger(accelMag, nowMs, last) ==
    accelMag > IMPACT_THRESH /\ Elapsed(nowMs, last) > IMPACT_COOLDOWN_MS

WindowStart_Kept(trig, nowMs, start) == start

\* peakTrackStartMs = nowMs in the trigger block
WindowStart(trig, nowMs, start) == IF trig THEN nowMs ELSE start

\* the peak-tracking window has elapsed
WindowClosed(nowMs, start) == Elapsed(nowMs, start) > 100

SendDue_NoGate(nowMs, lastSend, clients) == Elapsed(nowMs, lastSend) >= 20

SendDue_EveryLoop(nowMs, lastSend, clients) == clients > 0

\* the 50 Hz send gate
SendDue(nowMs, lastSend, clients) == Elapsed(nowMs, lastSend) >= 20 /\ clients > 0

SleepDue_Late(held) == held > SLEEP_HOLD_MS

\* "Trigger sleep after 3 seconds"
SleepDue(held) == held >= SLEEP_HOLD_MS

ShortPress_Inclusive(held) == held <= 1000

\* "Short press: reset quaternion"
ShortPress(held) == held < 1000

ClampDt_WrapDefault(nowUs, last) ==
    LET d == Elapsed(nowUs, last)
    IN  IF ~Leq32(last, nowUs) \/ d > 100000 THEN 33000 ELSE d

\* float dt = (nowUs - lastUs) * 1e-6f; if (dt > 0.1f) dt = 0.033f;
ClampDt(nowUs, last) ==
    LET d == Elapsed(nowUs, last) IN IF d > 100000 THEN 33000 ELSE d

\* what enterLightSleep() has done when it is called: nothing
NoEntry == [shown |-> FALSE, ws |-> TRUE, ap |-> TRUE, armed |-> FALSE, halted |-> FALSE]

\* the effect of one call of enterLightSleep()
EntryCall(e, call) ==
    CASE call = "pushSprite"      -> [e EXCEPT !.shown = TRUE]
      [] call = "wsClose"         -> [e EXCEPT !.ws = FALSE]
      [] call = "wifiOff"         -> [e EXCEPT !.ap = FALSE]
      [] call = "gpioWakeup"      -> [e EXCEPT !.armed = TRUE]
      [] call = "lightSleepStart" -> [e EXCEPT !.halted = TRUE]

SleepEntryCalls_HaltBeforeTeardown ==
    <<"pushSprite", "gpioWakeup", "lightSleepStart", "wsClose", "wifiOff">>

\* enterLightSleep(): canvas.pushSprite and delay(500), wsServer.close(),
\* WiFi.softAPdisconnect(true) and WiFi.mode(WIFI_OFF), gpio_wakeup_enable,
\* esp_light_sleep_start(), in the order of the calls
SleepEntryCalls ==
    <<"pushSprite", "wsClose", "wifiOff", "gpioWakeup", "lightSleepStart">>

RECURSIVE EntryAfter(_, _)
EntryAfter(calls, n) ==
    IF n = 0 THEN NoEntry ELSE EntryCall(EntryAfter(calls, n - 1), calls[n])

\* the calls run one after the other up to the first that halts the CPU; the
\* calls behind it run only after wake
EntryTrace(calls) ==
    LET halt == CHOOSE n \in 1..Len(calls) :
                    /\ EntryAfter(calls, n).halted
                    /\ \A m \in 1..(n - 1) : ~EntryAfter(calls, m).halted
    IN  [i \in 1..halt |-> EntryAfter(calls, i)]

\* the button block up to the call of enterLightSleep(), then enterLightSleep()
\* up to the halt in esp_light_sleep_start(): delay(500) is the only wait
EnterSleep(t, pressStart, pending) ==
    /\ power' = "Sleeping"
    /\ now' = t + 500
    /\ btnPressStartMs' = pressStart
    /\ btnWasDown' = TRUE
    /\ sleepPending' = pending
    /\ out' = <<>>
    /\ hist' = [hist EXCEPT !.step = "sleep", !.at = t, !.trig = FALSE,
                            !.heldSince = IF @ = -1 THEN t ELSE @,
                            !.pressSeen = IF @ = -1 THEN t ELSE @,
                            !.released = -1,
                            !.pin = "held",
                            !.clientsAtSleep = clientCount,
                            !.ignored = FALSE,
                            !.entry = EntryTrace(SleepEntryCalls),
                            !.servers = LET e == EntryTrace(SleepEntryCalls)
                                        IN  e[Len(e)].ws /\ e[Len(e)].ap]
    /\ UNCHANGED <<orient, filtG, filtRPM, gyroBias, lastUs, lastWsSendMs, clientCount,
                   lastImpactMs, impactFlag, shots, shotCount, trackingPeak,
                   peakTrackStartMs, peakRPMval, peakGval, peakGyro, base, imu, dtUs, probe>>

HasRoom_OffByOne(n) == n <= MAX_SHOTS

\* if (shotCount < MAX_SHOTS)
HasRoom(n) == n < MAX_SHOTS

ShotSlot_Previous(n) == IF n > 0 THEN n - 1 ELSE 0

\* ShotEvent &s = shots[shotCount]
ShotSlot(n) == n

NextShotCount_Stuck(n) == n

\* shotCount++
NextShotCount(n) == n + 1

FlagAfterSend_Sticky(send, flag) == flag

\* if (impactFlag) impactFlag = false, inside the send block
FlagAfterSend(send, flag) == IF send THEN FALSE ELSE flag

TrackPeaks_Latest(tracking, rpm, accelMag, fg, pRPM, pG, pGy) ==
    IF tracking THEN <<rpm, accelMag, fg>> ELSE <<pRPM, pG, pGy>>

\* the running maxima of the tracking block: <<peakRPMval, peakGval, peakGyro>>
TrackPeaks_LatestOnTie(tracking, rpm, accelMag, fg, pRPM, pG, pGy) ==
    IF tracking
    THEN << IF rpm > pRPM THEN rpm ELSE pRPM,
            IF accelMag > pG THEN accelMag ELSE pG,
            IF L1(fg) >= L1(pGy) THEN fg ELSE pGy >>
    ELSE <<pRPM, pG, pGy>>

TrackPeaks(tracking, rpm, accelMag, fg, pRPM, pG, pGy) ==
    IF tracking
    THEN << IF rpm > pRPM THEN rpm ELSE pRPM,
            IF accelMag > pG THEN accelMag ELSE pG,
            IF L1(fg) > L1(pGy) THEN fg ELSE pGy >>
    ELSE <<pRPM, pG, pGy>>

Broadcasts_SampleFirst(shot, sample) == sample \o shot

\* wsServer.broadcastTXT(shotJson) in the tracking block, then
\* wsServer.broadcastTXT(json) in the send block
Broadcasts(shot, sample) == shot \o sample

\* the ShotEvent written at the end of the window
ShotOf(ts, pk) ==
    [timestamp |-> ts, peakRPM |-> pk[1], peakG |-> pk[2],
     gx |-> pk[3][1], gy |-> pk[3][2], gz |-> pk[3][3],
     spinType |-> classifySpin(pk[3], pk[1])]

FilterInput_BiasCorrected(gyro, bias) ==
    <<100 * gyro[1] - RDiv(bias[1], 175), 100 * gyro[2] - RDiv(bias[2], 175),
      100 * gyro[3] - RDiv(bias[3], 175)>>

\* d.gyro.x, d.gyro.y, d.gyro.z as the filters take them, 1/100 deg/s: the raw
\* reading, not gx, gy, gz after the bias is subtracted
FilterInput(gyro, bias) == <<100 * gyro[1], 100 * gyro[2], 100 * gyro[3]>>

OrientAfter_ButtonLast(q, reset, g, dt) == IF reset THEN Identity ELSE Integrate(q, g, dt)

\* orient = {1, 0, 0, 0} of a short press, in the button block at the top of
\* loop(), then the integration step further down
OrientAfter(q, reset, g, dt) == Integrate(IF reset THEN Identity ELSE q, g, dt)

\* the rest of loop() after the button block.  Every intermediate value of the
\* C code is bound once, in the order the code computes it.
Process(t, btn, acc, gyro, pressStart, wasDown, pending, reset) ==
    \E nowMs \in {Millis(t)}, nowUs \in {Micros(t)} :
    \E dt \in {ClampDt(nowUs, lastUs)},
       bias \in {BiasUpdate(gyroBias, <<ToRad(gyro[1]), ToRad(gyro[2]), ToRad(gyro[3])>>)},
       accelMag \in {Norm3(acc)} :
    \E fg \in {Ema3(filtG, FilterInput(gyro, bias), 15, 100)},
       rawRPM \in {RDiv(Norm3(<<10 * gyro[1], 10 * gyro[2], 10 * gyro[3]>>), 6)} :
    \E rpm \in {Ema(filtRPM, rawRPM, 8, 100)},
       trig \in {ImpactTrigger(accelMag, nowMs, lastImpactMs)} :
    \E last1 \in {IF trig THEN nowMs ELSE lastImpactMs},
       track1 \in {trig \/ trackingPeak},
       start1 \in {WindowStart(trig, nowMs, peakTrackStartMs)} :
    \E pk \in {TrackPeaks(track1, rpm, accelMag, fg,
                          IF trig THEN rpm ELSE peakRPMval,
                          IF trig THEN accelMag ELSE peakGval,
                          IF trig THEN fg ELSE peakGyro)},
       close \in {track1 /\ WindowClosed(nowMs, start1)} :
    \E commit \in {close /\ HasRoom(shotCount)},
       q1 \in {OrientAfter(orient, reset,
                           <<ToRad(gyro[1]) - bias[1], ToRad(gyro[2]) - bias[2],
                             ToRad(gyro[3]) - bias[3]>>, dt)},
       send \in {SendDue(nowMs, lastWsSendMs, clientCount)} :
    \E s \in {ShotOf(last1, pk)} :
        /\ now' = t
        /\ btnPressStartMs' = pressStart
        /\ btnWasDown' = wasDown
        /\ sleepPending' = pending
        /\ dtUs' = dt
        /\ lastUs' = nowUs
        /\ gyroBias' = bias
        /\ filtG' = fg
        /\ filtRPM' = rpm
        /\ lastImpactMs' = last1
        /\ impactFlag' = FlagAfterSend(send, trig \/ impactFlag)
        /\ peakTrackStartMs' = start1
        /\ peakRPMval' = pk[1]
        /\ peakGval' = pk[2]
        /\ peakGyro' = pk[3]
        /\ trackingPeak' = IF close THEN FALSE ELSE track1
        /\ shots' = IF commit THEN [shots EXCEPT ![ShotSlot(shotCount)] = s] ELSE shots
        /\ shotCount' = IF commit THEN NextShotCount(shotCount) ELSE shotCount
        /\ orient' = q1
        /\ lastWsSendMs' = IF send THEN nowMs ELSE lastWsSendMs
        /\ imu' = <<acc, gyro>>
        /\ out' = Broadcasts(IF commit THEN <<ShotMsg(shotCount, s)>> ELSE <<>>,
                             IF send THEN <<SampleMsg(nowMs, acc, fg, q1, rpm, trig \/ impactFlag)>>
                             ELSE <<>>)
        /\ hist' = [hist EXCEPT
                      !.step = "tick",
                      !.at = t,
                      !.trig = trig,
                      !.trigAt = IF trig THEN t ELSE @,
                      !.hits = IF accelMag > IMPACT_THRESH THEN @ + 1 ELSE @,
                      !.unrecorded = (IF trig THEN @ + 1 ELSE @) - (IF close THEN 1 ELSE 0),
                      !.dropped = IF close /\ ~commit THEN @ + 1 ELSE @,
                      !.trigSinceSample = IF send THEN FALSE ELSE (@ \/ trig),
                      !.lastShotId = IF commit THEN shotCount ELSE @,
                      !.cleared = IF commit THEN FALSE ELSE @,
                      !.heldSince = IF btn THEN (IF @ = -1 THEN t ELSE @) ELSE -1,
                      !.pressSeen = IF btn THEN (IF @ = -1 THEN t ELSE @) ELSE -1,
                      !.released = IF ~btn /\ hist.heldSince # -1
                                   THEN t - hist.heldSince ELSE -1,
                      !.sinceWake = IF @ = -1 \/ @ = 2 THEN @ ELSE @ + 1,
                      !.ignored = FALSE,
                      !.window = IF trig THEN <<[rpm |-> rpm, g |-> accelMag, fg |-> fg]>>
                                 ELSE IF trackingPeak
                                      THEN Append(@, [rpm |-> rpm, g |-> accelMag, fg |-> fg])
                                      ELSE <<>>,
                      !.sampleAt = IF send THEN t ELSE @,
                      !.sampleT = IF send THEN nowMs ELSE @,
                      !.cadenceRef = IF send THEN t ELSE @]
        /\ UNCHANGED <<clientCount, power, base, probe>>

Tick(delta, btn, acc, gyro) ==
    LET t          == now + delta
        btnNowMs   == Millis(t)
        pressed    == btn /\ ~btnWasDown
        pressStart == IF pressed THEN btnNowMs ELSE btnPressStartMs
        wasDown1   == pressed \/ btnWasDown
        pending1   == IF pressed THEN FALSE ELSE sleepPending
        held       == Elapsed(btnNowMs, pressStart)
        down       == btn /\ wasDown1
        pending2   == IF down /\ held >= 1000 /\ held < SLEEP_HOLD_MS THEN TRUE ELSE pending1
        released   == ~btn /\ wasDown1
    IN  /\ power = "Active"
        /\ IF down /\ SleepDue(held)
           THEN EnterSleep(t, pressStart, pending2)
           ELSE Process(t, btn, acc, gyro, pressStart,
                        IF released THEN FALSE ELSE wasDown1,
                        IF released THEN FALSE ELSE pending2,
                        released /\ ShortPress(held))

WakeLastUs_Stale(t, old) == old

\* wakeFromSleep(): lastUs = micros(), at real time t
WakeLastUs(t, old) == Micros(t)

WakeClients_Kept(c) == c

\* wakeFromSleep(): clientCount = 0
WakeClients(c) == 0

\* the wake source fires after dur ms asleep: esp_light_sleep_start() returns,
\* then wakeFromSleep() (delay(200), the sunrise animation, the resets) and the
\* end of the button block; q is the orientation it leaves
WakeTo(dur, q) ==
    /\ power = "Sleeping"
    /\ power' = "Active"
    /\ now' = now + dur + 200 + FRAMES * 33
    /\ lastUs' = WakeLastUs(now', lastUs)
    /\ lastWsSendMs' = Millis(now')
    /\ clientCount' = WakeClients(clientCount)
    /\ btnWasDown' = FALSE
    /\ sleepPending' = FALSE
    /\ orient' = q
    /\ out' = <<>>
    /\ hist' = [hist EXCEPT !.step = "wake", !.trig = FALSE, !.pressSeen = -1,
                            !.pin = "up",
                            !.wokeNoConnect = TRUE, !.sinceWake = 0,
                            !.cadenceRef = now', !.entry = <<>>, !.servers = TRUE]
    /\ UNCHANGED <<filtG, filtRPM, btnPressStartMs, gyroBias, lastImpactMs,
                   impactFlag, shots, shotCount, trackingPeak, peakTrackStartMs,
                   peakRPMval, peakGval, peakGyro, base, imu, dtUs, probe>>

\* the button held for the sleep gesture is let go: during delay(500) of
\* enterLightSleep() or once the device sleeps
ReleaseAsleep ==
    /\ power = "Sleeping"
    /\ hist.pin = "held"
    /\ hist' = [hist EXCEPT !.pin = "up"]
    /\ UNCHANGED <<prog, power, now, base, imu, out, dtUs, probe>>

Wake_ResetsOrient(dur) == WakeTo(dur, Identity)

\* esp_light_sleep_start() returns: GPIO 41 reads low, the level armed by
\* gpio_wakeup_enable(GPIO_NUM_41, GPIO_INTR_LOW_LEVEL), because the button is
\* still down or has gone down again. Nothing on the sleep / wake path assigns
\* orient.
Wake(dur) == WakeTo(dur, orient)

-----------------------------------------------------------------------------
(* The environment: sensor samples, tick spacing, sleep durations, payloads *)

AccRest == <<0, 0, 1000>>

AccEdge == <<0, 0, 4000>>

AccHit == <<0, 0, 6000>>

GyroStill == <<0, 0, 0>>

GyroSpin == <<1800, 0, 0>>

\* the two commands onWsEvent knows
Commands == {"reset", "clear_shots"}

\* the commands and texts that are no command
Payloads == Commands \cup {"reset_all", "Reset", "bogus", ""}

\* millis() = 1000, micros() = 1000000 when loop() first runs
Boot == <<U32(1000), U32(1000000)>>

Init == InitAt(Boot)

MaxClients == 1

ConnectEvent == clientCount < MaxClients /\ Connect

(* Spec: impact detection and telemetry, the button never touched *)

MaxClock == 606

Deltas == {101, 202}

Next ==
    \/ \E delta \in Deltas, acc \in {AccRest, AccHit} :
          now + delta <= MaxClock /\ Tick(delta, FALSE, acc, GyroSpin)
    \/ ConnectEvent
    \/ Disconnect
    \/ \E p \in Commands : Text(p)

Spec == Init /\ [][Next]_vars

(* SpecPower: the button, sleep and wake on a 100 ms grid, the ball at rest *)

MaxClockPower == 6600

DeltasPower == {100, 1000}

SleepDurs == {0}

NextPower ==
    \/ \E delta \in DeltasPower, btn \in BOOLEAN :
          now + delta <= MaxClockPower /\ Tick(delta, btn, AccRest, GyroStill)
    \/ \E dur \in SleepDurs : Wake(dur)
    \/ \E p \in Commands : Text(p)

SpecPower == Init /\ [][NextPower]_vars

(* SpecWake: the button, sleep and wake with clients, commands and hits *)

MaxClockWake == 7900

MaxHits == 2

DeltasWake == {1000}

NextWake ==
    \/ \E delta \in DeltasWake, btn \in BOOLEAN,
          acc \in IF hist.hits < MaxHits THEN {AccRest, AccHit} ELSE {AccRest} :
          now + delta <= MaxClockWake /\ Tick(delta, btn, acc, GyroStill)
    \/ \E dur \in SleepDurs : Wake(dur)
    \/ ConnectEvent
    \/ Disconnect
    \/ \E p \in Commands : Text(p)

SpecWake == Init /\ [][NextWake]_vars

(* SpecCarry: the button, sleep and wake, with the ball spinning and hit *)

MaxClockCarry == 6500

DeltasCarry == {500}

NextCarry ==
    \/ \E delta \in DeltasCarry, btn \in BOOLEAN,
          acc \in IF hist.hits < MaxHits THEN {AccRest, AccHit} ELSE {AccRest} :
          now + delta <= MaxClockCarry /\ Tick(delta, btn, acc, GyroSpin)
    \/ \E dur \in SleepDurs : Wake(dur)

SpecCarry == Init /\ [][NextCarry]_vars

(* SpecLog: hit after hit until the shot log is full, then hits and rests *)

MaxClockLog == 10500

DeltasLog == {101}

NextLog ==
    \/ \E delta \in DeltasLog,
          acc \in IF shotCount < MAX_SHOTS - 1 THEN {AccHit} ELSE {AccRest, AccHit} :
          now + delta <= MaxClockLog /\ Tick(delta, FALSE, acc, GyroSpin)
    \/ ConnectEvent
    \/ Disconnect

SpecLog == Init /\ [][NextLog]_vars

(* SpecStable: the log filled to the brim, then commands, hits, sleep and wake *)

MaxClockStable == 15500

\* the log has just overflowed for the first time
JustFull == shotCount = MAX_SHOTS /\ hist.dropped = 1

NextStable ==
    \/ \E btn \in (IF btnWasDown \/ JustFull THEN BOOLEAN ELSE {FALSE}),
          delta \in (IF btnWasDown THEN {SLEEP_HOLD_MS} ELSE DeltasLog) :
          /\ now + delta <= MaxClockStable
          /\ Tick(delta, btn, AccHit, GyroSpin)
    \/ \E dur \in SleepDurs : Wake(dur)
    \/ ConnectEvent
    \/ Disconnect
    \/ \E p \in Commands : JustFull /\ Text(p)

SpecStable == Init /\ [][NextStable]_vars

(* SpecBoot: setup() with the sensor enabled or not, then whatever can run *)

MaxClockBoot == 5000

NextBoot ==
    \/ \E delta \in Deltas, acc \in {AccRest, AccHit} :
          now + delta <= MaxClock /\ Tick(delta, FALSE, acc, GyroSpin)
    \/ ConnectEvent
    \/ Disconnect
    \/ \E p \in Commands : Text(p)
    \/ now + 1000 <= MaxClockBoot /\ HaltLoop

SpecBoot == (\E enabled \in BOOLEAN : SetupAt(Boot, enabled)) /\ [][NextBoot]_vars

(* SpecQuat: the integration step called in a row on angular velocities at the
   dead zone's edge, inside it, and up to the gyroscope's full scale *)

MaxSteps == 3

\* bias-corrected angular velocities, 1e-6 rad/s; 34906585 is 2000 deg/s
OmegaGrid == { <<0, 0, 0>>, <<100000, 0, 0>>, <<0, 60000, 80000>>, <<100001, 0, 0>>,
               <<0, -60000, 80002>>, <<1000000, -2000000, 3000000>>,
               <<34906585, 0, 0>>, <<-20000000, 20000000, 20000000>> }

\* dt after the clamp, us
DtGrid == {1000, 33000, 100000}

\* the quaternion the next call starts from
ProbeQ == IF probe = NoProbe THEN Identity ELSE probe.res

ProbeN == IF probe = NoProbe THEN 0 ELSE probe.n

IntegrateCall(g, dt) ==
    /\ ProbeN < MaxSteps
    /\ probe' = [fn |-> "integrate", q |-> ProbeQ, g |-> g, dt |-> dt,
                 res |-> Integrate(ProbeQ, g, dt), n |-> ProbeN + 1]
    /\ UNCHANGED <<prog, power, now, base, imu, out, dtUs, hist>>

\* orient = {1, 0, 0, 0} of the "reset" command, between two calls
ResetCall ==
    /\ probe # NoProbe
    /\ probe.fn = "integrate"
    /\ probe' = [fn |-> "reset", q |-> probe.res, g |-> <<0, 0, 0>>, dt |-> 0,
                 res |-> ResetOrient(probe.res, "reset"), n |-> probe.n]
    /\ UNCHANGED <<prog, power, now, base, imu, out, dtUs, hist>>

NextQuat ==
    \/ \E g \in OmegaGrid, dt \in DtGrid : IntegrateCall(g, dt)
    \/ ResetCall

SpecQuat == Init /\ [][NextQuat]_vars

(* SpecBias: a ball turning just below and just above the stationarity
   threshold, hit all the while, with commands, sleep and wake *)

MaxClockBias == 5300

FineClockBias == 300

DeltasBias == {100}

\* deg/s: 8.49 deg/s is 0.148 rad/s, 8.66 deg/s is 0.151 rad/s
GyroCreep == <<0, -6, 6>>

GyroDrift == <<5, -5, 5>>

NextBias ==
    \/ \E btn \in BOOLEAN, gyro \in {GyroCreep, GyroDrift},
          delta \in (IF btnWasDown THEN {SLEEP_HOLD_MS} ELSE DeltasBias) :
          /\ now + delta <= MaxClockBias
          /\ delta \in DeltasBias => (now < FineClockBias \/ hist.sinceWake >= 0)
          /\ Tick(delta, btn, AccHit, gyro)
    \/ \E dur \in SleepDurs : Wake(dur)
    \/ \E p \in Commands : Text(p)

SpecBias == Init /\ [][NextBias]_vars

(* SpecTrack: loops 50 ms apart fill the log, then hits come and go, loops run
   late, clients connect and leave and commands arrive *)

MaxClockTrack == 12800

DeltasTrack == {50, 250}

\* the log is full
LogFull == shotCount = MAX_SHOTS

NextTrack ==
    \/ \E delta \in (IF LogFull THEN DeltasTrack ELSE {50}),
          acc \in (IF LogFull THEN {AccRest, AccHit} ELSE {AccHit}) :
          now + delta <= MaxClockTrack /\ Tick(delta, FALSE, acc, GyroSpin)
    \/ LogFull /\ ConnectEvent
    \/ LogFull /\ Disconnect
    \/ \E p \in Commands : LogFull /\ Text(p)

SpecTrack == Init /\ [][NextTrack]_vars

(* SpecDt: loops on time and late, started shortly before micros() wraps *)

\* micros() is 150 ms short of 2^32 when setup() returns
BootWrap == <<U32(1000), <<B16 - 3, 46608>>>>

MaxClockDt == 650

DeltasDt == {50, 100, 101}

NextDt ==
    \E delta \in DeltasDt :
        now + delta <= MaxClockDt /\ Tick(delta, FALSE, AccRest, GyroSpin)

SpecDt == InitAt(BootWrap) /\ [][NextDt]_vars

(* SpecPeak: a ball hit once or more, harder or softer, while its spin changes
   from loop to loop *)

MaxClockPeak == 250

DeltasPeak == {50}

AccPeak == <<0, 0, 9000>>

\* deg/s: after GyroTurn from rest the filtered gyro is (3, 0, 0) deg/s, and
\* GyroTilt then turns it to (2.55, 0.45, 0), of the same L1 norm
GyroTurn == <<20, 0, 0>>

GyroTilt == <<0, 3, 0>>

NextPeak ==
    \E delta \in DeltasPeak, acc \in {AccRest, AccHit, AccPeak},
       gyro \in {GyroTurn, GyroTilt, GyroSpin} :
        now + delta <= MaxClockPeak /\ Tick(delta, FALSE, acc, gyro)

SpecPeak == Init /\ [][NextPeak]_vars

(* SpecFlow: a ball now nearly at rest, so that the bias is learnt, now
   spinning, hit or not, with a client that comes and goes *)

MaxClockFlow == 606

DeltasFlow == {101}

NextFlow ==
    \/ \E delta \in DeltasFlow, acc \in {AccRest, AccHit}, gyro \in {GyroCreep, GyroSpin} :
          now + delta <= MaxClockFlow /\ Tick(delta, FALSE, acc, gyro)
    \/ ConnectEvent
    \/ Disconnect

SpecFlow == Init /\ [][NextFlow]_vars

(* SpecCmd: texts of every kind between the loops of a ball spinning and hit *)

MaxClockCmd == 505

DeltasCmd == {101}

NextCmd ==
    \/ \E delta \in DeltasCmd, acc \in {AccRest, AccHit} :
          now + delta <= MaxClockCmd /\ Tick(delta, FALSE, acc, GyroSpin)
    \/ ConnectEvent
    \/ Disconnect
    \/ \E p \in Payloads : Text(p)

SpecCmd == Init /\ [][NextCmd]_vars

(* SpecCadence: loops 10 ms apart across the wrap of millis(), with clients   *)
(* coming and going, one long press into sleep, and loops 10 ms apart after *)
(* the wake                                                                 *)

\* millis() is 35 ms short of 2^32 when loop() first runs: a device left at
\* rest for 49.7 days, which leaves every static at its initial value
BootLate == <<<<B16 - 1, B16 - 35>>, U32(1000000)>>

MaxClockCadence == 5000

\* loops are FineDelta apart until FineClock and again after a wake
FineDelta == 10

FineClock == 60

NextCadence ==
    \/ \E btn \in BOOLEAN, delta \in (IF btnWasDown THEN {SLEEP_HOLD_MS} ELSE {FineDelta}) :
          /\ now + delta <= MaxClockCadence
          /\ delta = FineDelta => (now < FineClock \/ hist.sinceWake >= 0)
          /\ Tick(delta, btn, AccRest, GyroStill)
    \/ \E dur \in SleepDurs : Wake(dur)
    \/ ConnectEvent
    \/ Disconnect

SpecCadence == InitAt(BootLate) /\ [][NextCadence]_vars

(* SpecWrap: millis() wraps to 0 between the loops: hits, a client and the   *)
(* button, from a device that has been at rest since setup()                *)

MaxClockWrap == 3400

\* loops are DeltasWrap apart until FineClockWrap, then a button still down is
\* read again SLEEP_HOLD_MS later
FineClockWrap == 240

DeltasWrap == {15, 105}

\* the button goes down before millis() wraps, 35 ms after setup(), or not at
\* all, and stays down while the loops are DeltasWrap apart
NextWrap ==
    \/ \E delta \in (IF now < FineClockWrap THEN DeltasWrap
                     ELSE IF btnWasDown THEN {SLEEP_HOLD_MS} ELSE {}) :
       \E btn \in (IF btnWasDown
                   THEN (IF now < FineClockWrap THEN {TRUE} ELSE BOOLEAN)
                   ELSE (IF now + delta < 35 THEN BOOLEAN ELSE {FALSE})),
          acc \in (IF hist.hits < MaxHits THEN {AccRest, AccHit} ELSE {AccRest}) :
          /\ now + delta <= MaxClockWrap
          /\ Tick(delta, btn, acc, GyroStill)
    \/ ConnectEvent
    \/ Disconnect

SpecWrap == InitAt(BootLate) /\ [][NextWrap]_vars

(* SpecOrder: hits and rests read by loops 60 or 120 ms apart, the log      *)
(* cleared when it holds three records                                       *)

MaxClockOrder == 1200

DeltasOrder == {60, 120}

NextOrder ==
    \/ \E delta \in DeltasOrder, acc \in {AccRest, AccHit} :
          now + delta <= MaxClockOrder /\ Tick(delta, FALSE, acc, GyroStill)
    \/ shotCount = 3 /\ Text("clear_shots")

SpecOrder == Init /\ [][NextOrder]_vars

(* SpecGraze: a spinning ball hit just above the impact threshold            *)

MaxClockGraze == 420

DeltasGraze == {60}

\* 4.04 g
AccGraze == <<0, 0, 4040>>

NextGraze ==
    \E delta \in DeltasGraze, acc \in {AccRest, AccGraze}, gyro \in {GyroStill, GyroSpin} :
        now + delta <= MaxClockGraze /\ Tick(delta, FALSE, acc, gyro)

SpecGraze == Init /\ [][NextGraze]_vars

(* SpecHalt: the sleep gesture, the button let go or not, and the wake       *)

MaxClockHalt == 5200

NextHalt ==
    \/ \E btn \in BOOLEAN, delta \in (IF btnWasDown THEN {SLEEP_HOLD_MS} ELSE {FineDelta}) :
          /\ now + delta <= MaxClockHalt
          /\ delta = FineDelta => (now < FineClock \/ hist.sinceWake >= 0)
          /\ Tick(delta, btn, AccRest, GyroStill)
    \/ ReleaseAsleep
    \/ \E dur \in SleepDurs : Wake(dur)

SpecHalt == Init /\ [][NextHalt]_vars

(* SpecSettle: five minutes of a slow, steady turn below the stationarity     *)
(* threshold, read every 100 ms, then turns of every speed                    *)

MaxClockSettle == 300500

SettleClock == 300000

DeltasSettle == {100}

\* deg/s: 14.46 deg/s is 0.252 rad/s, in the half-space of GyroCreep
GyroNudge == <<-3, -10, 10>>

NextSettle ==
    \E delta \in DeltasSettle,
       gyro \in (IF now < SettleClock THEN {GyroCreep} ELSE {GyroCreep, GyroNudge, GyroSpin}) :
        now + delta <= MaxClockSettle /\ Tick(delta, FALSE, AccRest, gyro)

SpecSettle == Init /\ [][NextSettle]_vars

(* SpecClassify: classifySpin called on a grid of gyro vectors and RPM values *)

\* one direct call of classifySpin, the first of the run
Classify(g, rpm) ==
    /\ probe = NoProbe
    /\ probe' = [fn |-> "classifySpin", g |-> g, rpm |-> rpm, res |-> classifySpin(g, rpm)]
    /\ UNCHANGED <<prog, power, now, base, imu, out, dtUs, hist>>

\* gyro components, 1/100 deg/s: 0, 0.4, 0.5, 35 ... 60 and 100 deg/s
GyroGrid == {-10000, -5000, -40, 0, 40, 50, 3500, 4000, 4500, 5000, 5500, 6000, 10000}

\* RPM values, 1/10 rpm: 0, 4.9, 5, 100, 299.9, 300 and 400 rpm
RpmGrid == {0, 49, 50, 1000, 2999, 3000, 4000}

NextClassify ==
    \E gx \in GyroGrid, gy \in GyroGrid, gz \in GyroGrid, rpm \in RpmGrid :
        Classify(<<gx, gy, gz>>, rpm)

SpecClassify == Init /\ [][NextClassify]_vars

-----------------------------------------------------------------------------
(* Properties *)

\* the step is a loop() that ran to its end
LoopRan == hist'.step = "tick" /\ now' # now

\* the step is a loop(): one that ran to its end, or one that halted in sleep
LoopStarted == power = "Active" /\ hist'.at # hist.at

SleepEntered == power = "Active" /\ power' = "Sleeping"

WakeReturned == power = "Sleeping" /\ power' = "Active"

\* positions of the sample / shot messages in a broadcast sequence
Samples(o) == {i \in DOMAIN o : o[i].event = "sample"}

Shots(o) == {i \in DOMAIN o : o[i].event = "shot"}

\* the bias-corrected angular velocity the last loop() integrated, 1e-6 rad/s
Omega(gyro, bias) ==
    <<ToRad(gyro[1]) - bias[1], ToRad(gyro[2]) - bias[2], ToRad(gyro[3]) - bias[3]>>

\* C1 (as stated): a sample above the impact threshold fires the trigger exactly
\* when more than 200 ms have passed since the previous trigger (or none has
\* fired yet), and every trigger gets a shot record of its own while the log has
\* room: once no window is open, no trigger is left without its closed window.
C1_ImpactDebounce ==
    [][LoopRan =>
          /\ hist'.trig =>
                hist.trigAt = -1 \/ hist'.at - hist.trigAt > IMPACT_COOLDOWN_MS
          /\ ( /\ Norm3(imu'[1]) > IMPACT_THRESH
               /\ (hist.trigAt = -1 \/ hist'.at - hist.trigAt > IMPACT_COOLDOWN_MS) )
                => hist'.trig
          /\ (~trackingPeak' /\ hist'.dropped = 0) => hist'.unrecorded = 0]_vars

\* C2: with MAX_SHOTS records in the log a loop() changes neither shotCount nor
\* shots and broadcasts no shot message; a trigger still sets the impact flag,
\* which stays set until a sample message carries it as imp = 1.
C2_ShotLogBound ==
    [][(LoopRan /\ shotCount = MAX_SHOTS) =>
          /\ shotCount' = shotCount
          /\ shots' = shots
          /\ Shots(out') = {}
          /\ (hist'.trig \/ impactFlag) =>
                IF Samples(out') = {} THEN impactFlag'
                ELSE \A i \in Samples(out') : out'[i].imp = 1]_vars

\* a trigger on a full log was dropped, and a later trigger is reported imp = 1
C2_Witness ==
    /\ shotCount = MAX_SHOTS
    /\ hist.dropped > 0
    /\ hist.trig
    /\ \E i \in DOMAIN out : out[i].event = "sample" /\ out[i].imp = 1

\* C3: a sample message carries imp = 1 exactly when a trigger fired since the
\* previous sample message (or since startup), the loop() that sends it included.
C3_EdgeTriggeredFlag ==
    [][LoopRan =>
          \A i \in Samples(out') :
              (out'[i].imp = 1) <=> (hist.trigSinceSample \/ hist'.trig)]_vars

\* a trigger of an earlier loop() is reported by a later sample message
C3_Witness ==
    /\ hist.step = "tick"
    /\ ~hist.trig
    /\ \E i \in DOMAIN out : out[i].event = "sample" /\ out[i].imp = 1

\* C4 (as stated): a loop() that runs with clientCount = 0 broadcasts nothing.
C4_NoTelemetryWithoutClient ==
    [][(LoopRan /\ clientCount = 0) => out' = <<>>]_vars

\* C4 (amended): a loop() that runs with clientCount = 0 broadcasts no sample
\* message; a loop() that commits a shot broadcasts its shot message whatever
\* clientCount is.
C4_SampleGate ==
    [][LoopRan =>
          /\ clientCount = 0 => Samples(out') = {}
          /\ shotCount' # shotCount => Shots(out') # {}]_vars

\* a shot message was broadcast with no client connected
C4_Witness ==
    /\ hist.step = "tick"
    /\ clientCount = 0
    /\ Len(out) = 1
    /\ out[1].event = "shot"

\* C5 (as stated): every shot message has an id greater than the id of the shot
\* message before it.
C5_StrictlyIncreasingIds ==
    [][LoopRan => \A i \in Shots(out') : out'[i].id > hist.lastShotId]_vars

\* C5 (amended): a shot message carries the position of its record in the log;
\* it is the previous message's id plus one, or 0 when it is the first message
\* or clear_shots arrived since the previous one.
C5_IdsIncreaseUntilCleared ==
    [][LoopRan =>
          \A i \in Shots(out') :
              /\ out'[i].id = shotCount
              /\ out'[i].id = IF hist.cleared THEN 0 ELSE hist.lastShotId + 1]_vars

\* a second shot message follows the first without a clear_shots in between
C5_Witness ==
    /\ hist.step = "tick"
    /\ ~hist.cleared
    /\ \E i \in DOMAIN out : out[i].event = "shot" /\ out[i].id = 1

\* C6 (as stated): sleep is entered by exactly the loop() that reads the button
\* down when 3000 ms or more have passed since the first of the consecutive
\* loops that read it down.
C6_SleepIffHeld3s ==
    [][SleepEntered <=>
          ( /\ LoopStarted
            /\ hist'.heldSince # -1
            /\ hist.heldSince # -1
            /\ hist'.at - hist.heldSince >= SLEEP_HOLD_MS )]_vars

\* C6 (amended): the same, where a button still down on the first loop() after a
\* wake counts as first read down by that loop().
C6_SleepIffHeld3sSinceWake ==
    [][SleepEntered <=>
          ( /\ LoopStarted
            /\ hist'.pressSeen # -1
            /\ hist.pressSeen # -1
            /\ hist'.at - hist.pressSeen >= SLEEP_HOLD_MS )]_vars

\* the device sleeps, the button read down for 3000 ms or more
C6_Witness ==
    /\ power = "Sleeping"
    /\ hist.pressSeen # -1
    /\ hist.at - hist.pressSeen >= SLEEP_HOLD_MS

\* C7: a loop() that reads the release of a button held less than 1000 ms resets
\* the orientation to identity (and then integrates its own sample from there);
\* one that reads the release after 1000 ms or more and less than 3000 ms clears
\* sleepPending, leaves the orientation to the integration alone and does not sleep.
C7_EarlyRelease ==
    [][(LoopStarted /\ hist.heldSince # -1 /\ hist'.heldSince = -1) =>
          /\ hist'.at - hist.heldSince < 1000 =>
                /\ orient' = Integrate(Identity, Omega(imu'[2], gyroBias'), dtUs')
                /\ ~sleepPending'
                /\ power' = "Active"
          /\ (hist'.at - hist.heldSince >= 1000
                /\ hist'.at - hist.heldSince < SLEEP_HOLD_MS) =>
                /\ orient' = Integrate(orient, Omega(imu'[2], gyroBias'), dtUs')
                /\ ~sleepPending'
                /\ power' = "Active"]_vars

\* a release after a hold between 1 s and 3 s, the ball turned away from identity
C7_Witness ==
    /\ hist.step = "tick"
    /\ hist.released >= 1000
    /\ hist.released < SLEEP_HOLD_MS
    /\ orient # Identity
    /\ ~sleepPending

\* C8: from the return of the wake procedure until a connect notification
\* arrives, clientCount is 0 and no loop() broadcasts a sample message.
C8_WakeResetsClients ==
    hist.wokeNoConnect => (clientCount = 0 /\ Samples(out) = {})

\* a loop() ran after a wake, no client reconnected, one connected before sleep
C8_Witness ==
    /\ hist.wokeNoConnect
    /\ hist.step = "tick"
    /\ hist.clientsAtSleep > 0

\* C9: the step into sleep and the step out of it leave the orientation, the
\* filters, the bias, the shot log and its count, the impact flag and the peak
\* tracking state unchanged.
C9_StateAcrossSleep ==
    [][(SleepEntered \/ WakeReturned) =>
          UNCHANGED <<orient, filtG, filtRPM, gyroBias, shots, shotCount, impactFlag,
                      trackingPeak, peakTrackStartMs, peakRPMval, peakGval,
                      peakGyro>>]_vars

\* back from sleep with a turned orientation, a shot in the log, the impact flag
\* set and a tracking window open
C9_Witness ==
    /\ hist.step = "wake"
    /\ power = "Active"
    /\ orient # Identity
    /\ filtRPM > 0
    /\ shotCount > 0
    /\ impactFlag
    /\ trackingPeak

\* C10 (as stated): the first loop() after a wake computes dt = 0.033 s.
C10_FirstDtIsClampDefault ==
    [][(LoopRan /\ hist.sinceWake = 0) => dtUs' = 33000]_vars

\* C10 (amended): the first loop() after a wake computes dt from the time since
\* the wake procedure returned, the time asleep excluded: that time itself when
\* it is at most 0.1 s, and 0.033 s when it is more.
C10_FirstDtSinceWake ==
    [][(LoopRan /\ hist.sinceWake = 0) =>
          dtUs' = IF 1000 * (now' - now) > 100000 THEN 33000
                  ELSE 1000 * (now' - now)]_vars

\* the first loop() after a wake ran 100 ms after it and computed dt = 0.1 s
C10_Witness ==
    /\ hist.step = "tick"
    /\ hist.sinceWake = 1
    /\ dtUs = 100000

\* C11: the text "reset" sets the orientation to identity and changes nothing
\* else; the text "clear_shots" sets shotCount to 0 and changes nothing else.
C11_CommandFrame ==
    [][ /\ Text("reset") =>
              /\ orient' = Identity
              /\ UNCHANGED <<filtG, filtRPM, sleepPending, btnPressStartMs, btnWasDown,
                             gyroBias, lastUs, lastWsSendMs, clientCount, lastImpactMs,
                             impactFlag, shots, shotCount, trackingPeak,
                             peakTrackStartMs, peakRPMval, peakGval, peakGyro,
                             power, out>>
        /\ Text("clear_shots") =>
              /\ shotCount' = 0
              /\ UNCHANGED <<orient, filtG, filtRPM, sleepPending, btnPressStartMs,
                             btnWasDown, gyroBias, lastUs, lastWsSendMs, clientCount,
                             lastImpactMs, impactFlag, shots, trackingPeak,
                             peakTrackStartMs, peakRPMval, peakGval, peakGyro,
                             power, out>> ]_vars

\* both commands arrived after a shot, with a window open, the impact flag set
\* and a client connected
C11_Witness ==
    /\ now > 0
    /\ orient = Identity
    /\ shotCount = 0
    /\ hist.cleared
    /\ hist.lastShotId >= 0
    /\ trackingPeak
    /\ impactFlag
    /\ clientCount > 0
    /\ filtRPM > 0

\* C12: a text that is neither "reset" nor "clear_shots" changes no program
\* variable, leaves the device awake and broadcasts nothing.
C12_UnknownTextIgnored ==
    [][\A p \in Payloads \ Commands : Text(p) => UNCHANGED <<prog, power, out>>]_vars

\* such a text arrived with a turned orientation, a shot in the log, a window
\* open, the impact flag set and a client connected
C12_Witness ==
    /\ hist.ignored
    /\ orient # Identity
    /\ shotCount > 0
    /\ trackingPeak
    /\ impactFlag
    /\ clientCount > 0

\* the labels of the axes
AxisLabel == [x |-> {"TOPSPIN", "BACKSPIN"}, y |-> {"SIDE_R", "SIDE_L"}, z |-> {"SLICE"}]

\* C13: classifySpin returns FLAT exactly when rpm is below 5 or |gx|+|gy|+|gz| is
\* below 1; otherwise the label of the first axis, in the order x, y, z, whose
\* share of the total is above one half, with the sign of gx or gy choosing
\* between the two labels of x or y, and MIXED when no share is above one half;
\* the five calls the claim lists return the labels it lists.
C13_DecisionTable ==
    /\ classifySpin(<<0, 0, 0>>, 0) = "FLAT"
    /\ classifySpin(<<10000, 0, 0>>, 4000) = "TOPSPIN"
    /\ classifySpin(<<-10000, 0, 0>>, 4000) = "BACKSPIN"
    /\ classifySpin(<<0, 10000, 0>>, 4000) = "SIDE_R"
    /\ classifySpin(<<4000, 3500, 3500>>, 4000) = "MIXED"
    /\ probe.fn = "classifySpin" =>
          LET total == L1(probe.g)
              flat  == probe.rpm < 50 \/ total < 100
              domX  == 2 * Abs(probe.g[1]) > total
              domY  == 2 * Abs(probe.g[2]) > total
              domZ  == 2 * Abs(probe.g[3]) > total
          IN  /\ probe.res \in SpinTypes
              /\ (probe.res = "FLAT") <=> flat
              /\ (probe.res = "TOPSPIN") <=> (~flat /\ domX /\ probe.g[1] > 0)
              /\ (probe.res = "BACKSPIN") <=> (~flat /\ domX /\ probe.g[1] < 0)
              /\ (probe.res = "SIDE_R") <=> (~flat /\ ~domX /\ domY /\ probe.g[2] > 0)
              /\ (probe.res = "SIDE_L") <=> (~flat /\ ~domX /\ domY /\ probe.g[2] < 0)
              /\ (probe.res = "SLICE") <=> (~flat /\ ~domX /\ ~domY /\ domZ)
              /\ (probe.res = "MIXED") <=> (~flat /\ ~domX /\ ~domY /\ ~domZ)

\* two axes with exactly one half each are MIXED
C13_Witness ==
    /\ probe.fn = "classifySpin"
    /\ probe.g = <<5000, 5000, 0>>
    /\ probe.rpm = 4000
    /\ probe.res = "MIXED"

\* C14 (as stated): a sample message sent at a filtered RPM below 300 has the
\* spin label FLAT, and a shot message of a record with peak RPM below 300 has
\* the type FLAT.
C14_FlatBelow300 ==
    \A i \in DOMAIN out :
        /\ out[i].event = "sample" => (filtRPM < 3000 => out[i].spin = "FLAT")
        /\ out[i].event = "shot" =>
              (shots[out[i].id].peakRPM < 3000 => out[i].type = "FLAT")

\* C15 (as stated): classifySpin returns the label of an axis only when that
\* axis has 60% of the total or more, and MIXED for every vector that is not
\* FLAT and has no axis with 60%.
C15_SixtyPercentDominance ==
    probe.fn = "classifySpin" =>
        LET total == L1(probe.g)
            share60(k) == 10 * Abs(probe.g[k]) >= 6 * total
        IN  /\ probe.res \in AxisLabel.x => share60(1)
            /\ probe.res \in AxisLabel.y => share60(2)
            /\ probe.res \in AxisLabel.z => share60(3)
            /\ (probe.res # "FLAT" /\ ~share60(1) /\ ~share60(2) /\ ~share60(3))
                  => probe.res = "MIXED"

\* C16 (as stated): a sample message is sent only by a loop() that starts 20 ms
\* or more after the previous sample message and after the return of the last
\* wake, and its t is not below the previous sample message's t and 20 or more
\* above it.
C16_SampleTimesNonDecreasing ==
    [][LoopRan =>
          \A i \in Samples(out') :
              /\ hist.cadenceRef # -1 => hist'.at - hist.cadenceRef >= 20
              /\ hist.sampleAt # -1 =>
                    /\ Leq32(hist.sampleT, out'[i].t)
                    /\ Elapsed(out'[i].t, hist.sampleT) >= 20]_vars

\* C16 (amended): a sample message is sent only by a loop() that starts 20 ms or
\* more after the previous sample message and after the return of the last
\* wake; its t is millis() of that loop(), 20 or more above the previous sample
\* message's t modulo 2^32.
C16_SampleCadence ==
    [][LoopRan =>
          \A i \in Samples(out') :
              /\ out'[i].t = Millis(hist'.at)
              /\ hist.cadenceRef # -1 => hist'.at - hist.cadenceRef >= 20
              /\ hist.sampleAt # -1 =>
                    /\ hist'.at - hist.sampleAt >= 20
                    /\ Elapsed(out'[i].t, hist.sampleT) >= 20]_vars

\* a sample message follows the previous one by exactly 20 ms, after a loop()
\* in between that sent none
C16_Witness ==
    /\ hist.step = "tick"
    /\ Samples(out) # {}
    /\ hist.sampleAt = now
    /\ now >= 30
    /\ clientCount > 0
    /\ hist.sinceWake = 2

\* C17: a shot record, once appended at index i, is never modified by a later
\* tick, impact, sleep / wake cycle or "reset" command, a full log overwrites
\* no entry, and the count of records goes down by the clear_shots command only.
C17_ShotRecordsStable ==
    [][ /\ \A i \in 0..(MAX_SHOTS - 1) : i < shotCount => shots'[i] = shots[i]
        /\ shotCount' < shotCount => (Text("clear_shots") /\ shotCount' = 0) ]_vars

C17_Witness ==
    /\ shotCount = MAX_SHOTS
    /\ hist.dropped >= 1
    /\ hist.sinceWake >= 1
    /\ shots[0] # NoShot
    /\ shots[MAX_SHOTS - 1] # NoShot
    /\ shots[0].timestamp # shots[MAX_SHOTS - 1].timestamp

\* C18: when the sensor reports not enabled at startup the system stays halted
\* inside setup() for ever: the access point and the servers are never started,
\* no loop() runs, no message is ever sent and no client is ever counted.
C18_FatalSensorFailure ==
    ~hist.imuOk =>
        /\ power = "Halted"
        /\ ~hist.servers
        /\ hist.step = "setup"
        /\ hist.at = 0
        /\ out = <<>>
        /\ hist.sampleAt = -1
        /\ hist.lastShotId = -1
        /\ clientCount = 0
        /\ lastUs = U32(0)
        /\ orient = Identity
        /\ shotCount = 0

\* the endless loop of setup() has turned three times
C18_Witness ==
    /\ ~hist.imuOk
    /\ power = "Halted"
    /\ now >= 3000

\* C19: starting from identity, after every integration step and after every
\* reset the norm of the orientation quaternion is within 1e-3 of 1.
C19_UnitNorm ==
    probe.fn \in {"integrate", "reset"} => Abs(QLen(probe.res) - 10000) <= 10

\* the last of a row of steps, at the gyroscope's full scale over the longest
\* dt, turns a quaternion that earlier steps had already turned
C19_Witness ==
    /\ probe.fn = "integrate"
    /\ probe.n = MaxSteps
    /\ Norm3(probe.g) >= 34000000
    /\ probe.dt = 100000
    /\ probe.q # Identity
    /\ probe.res # probe.q

\* C20: an integration step whose angular velocity has a magnitude at or below
\* 0.10 rad/s leaves the orientation quaternion as it was, for every dt.
C20_DeadZone ==
    (probe.fn = "integrate" /\ Norm3(probe.g) <= 100000) => probe.res = probe.q

\* exactly 0.10 rad/s, off the axes, on a quaternion already turned
C20_Witness ==
    /\ probe.fn = "integrate"
    /\ Norm3(probe.g) = 100000
    /\ probe.g[2] # 0
    /\ probe.g[3] # 0
    /\ probe.dt = 100000
    /\ probe.q # Identity
    /\ probe.res = probe.q

\* the raw angular rate the loop() of this step read, 1e-6 rad/s
RawRate(gyro) == <<ToRad(gyro[1]), ToRad(gyro[2]), ToRad(gyro[3])>>

\* C21: a loop() that reads a raw angular rate of 0.15 rad/s or more leaves the
\* three bias components as they were; the bias changes only in a loop() that
\* reads a rate below the threshold, never by a command, an impact, sleep or wake.
C21_BiasGate ==
    [][ /\ (LoopRan /\ Norm3(RawRate(imu'[2])) >= 150000) => gyroBias' = gyroBias
        /\ gyroBias' # gyroBias => (LoopRan /\ Norm3(RawRate(imu'[2])) < 150000) ]_vars

\* a bias learnt before sleep is held, after wake, by a loop() that reads a
\* rate just above the threshold while an impact fires
C21_Witness ==
    /\ hist.step = "tick"
    /\ hist.sinceWake >= 1
    /\ hist.trig
    /\ imu[2] = GyroDrift
    /\ gyroBias # <<0, 0, 0>>

\* C22: the impact trigger never fires in a loop() that starts with peak
\* tracking already active, whatever the spacing of the loops and also on the
\* first loop() after wake, so an open window is never superseded.
C22_NoRetriggerWhileTracking ==
    [][(LoopRan /\ hist'.trig) => ~trackingPeak]_vars

\* C23: once tracking is active, it ends in the first loop() that
\* runs more than 100 ms after the trigger that started it, whatever commands
\* and notifications arrive and however full the log is.
C23_TrackingCompletes ==
    [][(LoopRan /\ trackingPeak /\ Elapsed(Millis(now'), lastImpactMs) > 100)
          => ~trackingPeak']_vars

\* C24: a loop() that broadcasts a shot message and a sample message broadcasts
\* the shot message first, and at most one of each.
C24_ShotBeforeSample ==
    [][LoopRan =>
          /\ \A i \in Shots(out'), j \in Samples(out') : i < j
          /\ Cardinality(Shots(out')) <= 1
          /\ Cardinality(Samples(out')) <= 1]_vars

\* the loop() that closes the second window sends the shot with id 1, then a sample
C24_Witness ==
    /\ hist.step = "tick"
    /\ Len(out) = 2
    /\ out[1].event = "shot"
    /\ out[1].id = 1
    /\ out[2].event = "sample"

\* the step is a loop() that reads the release of a press shorter than 1000 ms
ShortRelease ==
    /\ LoopRan
    /\ btnWasDown
    /\ ~btnWasDown'
    /\ Elapsed(Millis(now'), btnPressStartMs) < 1000

\* C25 (as stated): the button and sleep check is the last step of a loop(),
\* after integration and telemetry: the loop() that enters sleep has processed
\* its sensor sample first, and the reset of a short press is what the loop()
\* leaves in the orientation.
C25_PowerCheckLast ==
    [][ /\ SleepEntered => lastUs' = Micros(hist'.at)
        /\ ShortRelease => orient' = Identity ]_vars

\* C25 (amended): a loop() runs the button and sleep check first, then reads
\* the sensor, updates bias and filters, handles impact and shot, integrates
\* and sends: the loop() that enters sleep processes no sample and sends
\* nothing, and the reset of a short press is integrated over in the same
\* loop(), with the bias that loop() has just updated.
C25_PowerCheckFirst ==
    [][ /\ SleepEntered =>
              /\ out' = <<>>
              /\ UNCHANGED <<orient, filtG, filtRPM, gyroBias, lastUs, lastWsSendMs,
                             lastImpactMs, impactFlag, shots, shotCount, trackingPeak,
                             peakTrackStartMs, peakRPMval, peakGval, peakGyro, imu, dtUs>>
        /\ LoopRan =>
              /\ lastUs' = Micros(now')
              /\ orient' = Integrate(IF ShortRelease THEN Identity ELSE orient,
                                     Omega(imu'[2], gyroBias'), dtUs') ]_vars

\* a short press released on a spinning ball: the loop() that reads the release
\* leaves an orientation that is neither identity nor the old one turned
C25_Witness ==
    /\ hist.step = "tick"
    /\ hist.released \in 1..999
    /\ ~btnWasDown
    /\ orient # Identity
    /\ orient = Integrate(Identity, Omega(imu[2], gyroBias), dtUs)
    /\ imu[2] = GyroSpin
    /\ orient # Integrate(Integrate(Identity, Omega(imu[2], gyroBias), dtUs),
                          Omega(imu[2], gyroBias), dtUs)

C27_DtClamp ==
    [][LoopRan =>
          /\ dtUs' <= 100000
          /\ dtUs' = IF 1000 * (now' - now) > 100000 THEN 33000 ELSE 1000 * (now' - now)
          /\ lastUs' = Micros(now')
          /\ orient' = Integrate(orient, Omega(imu'[2], gyroBias'), dtUs')]_vars

\* the loop() right after the wrap of micros(), 0.1 s after the previous one
C27_Witness ==
    /\ hist.step = "tick"
    /\ lastUs[1] = 0
    /\ Elapsed(lastUs, U32(0)) < 100000
    /\ dtUs = 100000
    /\ orient # Identity

\* the step is a loop() that appends a shot record
Committed == LoopRan /\ shotCount' = shotCount + 1

\* the first position of a window whose filtered gyro has the largest L1 norm
FirstLargest(w) ==
    CHOOSE i \in DOMAIN w :
        /\ \A j \in DOMAIN w : L1(w[j].fg) <= L1(w[i].fg)
        /\ \A j \in 1..(i - 1) : L1(w[j].fg) < L1(w[i].fg)

\* C28: the record committed for a window holds the largest filtered RPM and
\* the largest acceleration magnitude of the loops from the trigger to the
\* closing loop(), both included, and the filtered gyro vector of the earliest
\* of these loops with the largest L1 norm, whole.
C28_PeakResult ==
    [][Committed =>
          LET w == hist'.window
              s == shots'[shotCount]
          IN  /\ Len(w) >= 2
              /\ \A j \in DOMAIN w : w[j].rpm <= s.peakRPM /\ w[j].g <= s.peakG
              /\ \E j \in DOMAIN w : w[j].rpm = s.peakRPM
              /\ \E j \in DOMAIN w : w[j].g = s.peakG
              /\ <<s.gx, s.gy, s.gz>> = w[FirstLargest(w)].fg]_vars

\* a record whose gyro vector is that of the trigger loop(), tied in L1 norm by a
\* later loop() of the window, and whose peak G comes from a loop() after the trigger
C28_Witness ==
    /\ hist.step = "tick"
    /\ shotCount = 1
    /\ Len(hist.window) = 4
    /\ L1(hist.window[2].fg) = L1(hist.window[1].fg)
    /\ hist.window[2].fg # hist.window[1].fg
    /\ <<shots[0].gx, shots[0].gy, shots[0].gz>> = hist.window[1].fg
    /\ shots[0].peakG > hist.window[1].g
    /\ \A j \in 1..4 : L1(hist.window[j].fg) <= L1(hist.window[1].fg)

\* C29: what a loop() leaves in the filtered gyro, the filtered RPM, the impact
\* flag, the peak accumulators and the shot records, and every field it sends
\* other than the quaternion, is determined by the sensor sample, the time and
\* these same values before the loop(): neither the bias estimate nor the
\* orientation enters, so two runs that differ in the bias alone agree on all of them.
C29_BiasNonInterference ==
    [][LoopRan =>
          LET acc   == imu'[1]
              gyro  == imu'[2]
              nowMs == Millis(now')
              fg    == Ema3(filtG, <<100 * gyro[1], 100 * gyro[2], 100 * gyro[3]>>, 15, 100)
              rpm   == Ema(filtRPM,
                           RDiv(Norm3(<<10 * gyro[1], 10 * gyro[2], 10 * gyro[3]>>), 6), 8, 100)
              g     == Norm3(acc)
              trig  == g > IMPACT_THRESH /\ Elapsed(nowMs, lastImpactMs) > IMPACT_COOLDOWN_MS
              send  == Elapsed(nowMs, lastWsSendMs) >= 20 /\ clientCount > 0
              flag  == trig \/ impactFlag
          IN  /\ filtG' = fg
              /\ filtRPM' = rpm
              /\ hist'.trig = trig
              /\ impactFlag' = (flag /\ ~send)
              /\ trig => <<peakRPMval', peakGval', peakGyro'>> = <<rpm, g, fg>>
              /\ (trackingPeak /\ ~trig) =>
                    /\ peakRPMval' = Max2(peakRPMval, rpm)
                    /\ peakGval' = Max2(peakGval, g)
                    /\ peakGyro' \in {peakGyro, fg}
              /\ Samples(out') # {} <=> send
              /\ \A i \in Samples(out') :
                    /\ out'[i].t = nowMs
                    /\ out'[i].a = acc
                    /\ <<out'[i].gx, out'[i].gy, out'[i].gz>> =
                          <<Fmt1(fg[1], 100), Fmt1(fg[2], 100), Fmt1(fg[3], 100)>>
                    /\ out'[i].rpm = Fmt0(rpm)
                    /\ out'[i].spin = classifySpin(fg, rpm)
                    /\ out'[i].imp = IF flag THEN 1 ELSE 0
              /\ \A i \in Shots(out') :
                    /\ shots'[shotCount] =
                          [timestamp |-> lastImpactMs', peakRPM |-> peakRPMval',
                           peakG |-> peakGval', gx |-> peakGyro'[1], gy |-> peakGyro'[2],
                           gz |-> peakGyro'[3],
                           spinType |-> classifySpin(peakGyro', peakRPMval')]
                    /\ out'[i] = ShotMsg(shotCount, shots'[shotCount])]_vars

\* a sample is sent by a loop() that has learnt a bias of more than 0.0005 rad/s
\* and then reads a spinning ball, with a shot on record
C29_Witness ==
    /\ hist.step = "tick"
    /\ L1(gyroBias) > 500
    /\ imu[2] = GyroSpin
    /\ orient # Identity
    /\ Samples(out) # {}
    /\ shotCount >= 1

\* C30: a connect notification adds one to clientCount, a disconnect
\* notification takes one off when the count is positive and leaves a count of
\* zero at zero, as after wake has reset it; the count never goes from 0 to 255.
C30_ClientCountBounds ==
    [][ /\ Connect => clientCount' = clientCount + 1
        /\ Disconnect => clientCount' = (IF clientCount > 0 THEN clientCount - 1 ELSE 0)
        /\ clientCount' # clientCount =>
              \/ clientCount' = clientCount + 1
              \/ clientCount > 0 /\ clientCount' = clientCount - 1
              \/ WakeReturned /\ clientCount' = 0
        /\ clientCount' \in 0..MaxClients ]_vars

\* after a wake that dropped a client, a client connected and left again, and
\* a loop() ran with the count back at zero
C30_Witness ==
    /\ hist.sinceWake >= 1
    /\ hist.clientsAtSleep > 0
    /\ ~hist.wokeNoConnect
    /\ clientCount = 0

\* the step is a loop() that reads the first release after wake of a button
\* read down by every loop() since the wake
WakePressReleased ==
    /\ LoopRan
    /\ btnWasDown
    /\ ~btnWasDown'
    /\ hist.heldSince # -1
    /\ hist.pressSeen # -1
    /\ hist.heldSince # hist.pressSeen

\* C31: the press that wakes the device resets no orientation: the loop() that
\* reads its release, however soon after wake, only integrates.
C31_WakePressNoReset ==
    [][WakePressReleased =>
          orient' = Integrate(orient, Omega(imu'[2], gyroBias'), dtUs')]_vars

\* C32: a sample above the impact threshold read while no window is open fires
\* the trigger and opens the window whenever no trigger has fired in the 200 ms
\* before it, or none has ever fired, whatever millis() reads at that loop().
C32_FirstImpactDetected ==
    [][( /\ LoopRan
         /\ ~trackingPeak
         /\ Norm3(imu'[1]) > IMPACT_THRESH
         /\ (hist.trigAt = -1 \/ hist'.at - hist.trigAt > IMPACT_COOLDOWN_MS) )
          => ( /\ hist'.trig
               /\ trackingPeak'
               /\ peakTrackStartMs' = Millis(now') )]_vars

\* C33: the four timers measure the true elapsed time across a wrap of millis().
\* A trigger fires only more than 200 ms after the previous trigger, and a
\* sample above the threshold that late does fire it; an open window closes by
\* exactly the first loop() more than 100 ms after its trigger; a sample
\* message is sent with a client connected exactly when 20 ms or more have
\* passed since the previous one; sleep is entered exactly when the button has
\* been read down for 3000 ms or more.
C33_WrapSafety ==
    [][LoopStarted =>
          /\ (hist'.trig /\ hist.trigAt # -1) =>
                hist'.at - hist.trigAt > IMPACT_COOLDOWN_MS
          /\ ( /\ LoopRan
               /\ Norm3(imu'[1]) > IMPACT_THRESH
               /\ hist.trigAt # -1
               /\ hist'.at - hist.trigAt > IMPACT_COOLDOWN_MS ) => hist'.trig
          /\ (LoopRan /\ trackingPeak /\ ~hist'.trig) =>
                (~trackingPeak' <=> hist'.at - hist.trigAt > 100)
          /\ (LoopRan /\ hist.cadenceRef # -1) =>
                (Samples(out') # {} <=>
                    (clientCount > 0 /\ hist'.at - hist.cadenceRef >= 20))
          /\ SleepEntered <=>
                ( /\ hist.pressSeen # -1
                  /\ hist'.pressSeen # -1
                  /\ hist'.at - hist.pressSeen >= SLEEP_HOLD_MS )]_vars

\* asleep after a hold that began before the wrap; the first impact fired
\* before the wrap and its record was written after it, a later impact fired
\* after the wrap, and the last sample message went out after the wrap
C33_Witness ==
    /\ power = "Sleeping"
    /\ btnPressStartMs[1] = B16 - 1
    /\ shotCount = 2
    /\ shots[0].timestamp[1] = B16 - 1
    /\ shots[1].timestamp[1] = 0
    /\ hist.sampleAt > 35
    /\ lastWsSendMs[1] = 0

\* C34: while millis() has not wrapped, the records of the shot log are in
\* strictly increasing order of timestamp and every record's timestamp is more
\* than 200 ms above that of the record before it.
C34_ChronologicalLog ==
    \A i \in 1..(MAX_SHOTS - 1) :
        i < shotCount =>
            /\ Leq32(shots[i - 1].timestamp, shots[i].timestamp)
            /\ shots[i - 1].timestamp # shots[i].timestamp
            /\ Elapsed(shots[i].timestamp, shots[i - 1].timestamp) > IMPACT_COOLDOWN_MS

\* two records in a log that was cleared when it held three: the record left
\* behind them in the array is older than both
C34_Witness ==
    /\ shotCount = 2
    /\ hist.step = "tick"
    /\ shots[2] # NoShot
    /\ Elapsed(shots[0].timestamp, shots[2].timestamp) > IMPACT_COOLDOWN_MS
    /\ Elapsed(shots[1].timestamp, shots[0].timestamp) > IMPACT_COOLDOWN_MS

\* the shot message of the step
ShotSent == out'[CHOOSE i \in Shots(out') : TRUE]

\* C35 (as stated): every shot record and every shot message has a peak G above
\* the impact threshold of 4.0 g and a peak RPM not below the filtered RPM of
\* the loop() that fired the trigger.
C35_PeaksAboveTrigger ==
    [][Committed =>
          LET w == hist'.window
              s == shots'[shotCount]
          IN  /\ s.peakG > IMPACT_THRESH
              /\ s.peakRPM >= w[1].rpm
              /\ Shots(out') # {}
              /\ 100 * ShotSent.peakG > IMPACT_THRESH
              /\ 10 * ShotSent.rpm >= w[1].rpm]_vars

\* C35 (amended): every shot record has a peak G above the impact threshold and
\* a peak RPM not below the filtered RPM of the loop() that fired the trigger;
\* the shot message carries the record's peak G rounded to one decimal, which
\* is 4.0 or more, and its peak RPM rounded to an integer, which is not below
\* the rounded filtered RPM of the trigger loop().
C35_PeaksAboveTriggerRounded ==
    [][Committed =>
          LET w == hist'.window
              s == shots'[shotCount]
          IN  /\ s.peakG > IMPACT_THRESH
              /\ s.peakRPM >= w[1].rpm
              /\ Shots(out') # {}
              /\ ShotSent.peakG = Fmt1(s.peakG, 1000)
              /\ ShotSent.rpm = Fmt0(s.peakRPM)
              /\ ShotSent.peakG >= Fmt1(IMPACT_THRESH, 1000)
              /\ ShotSent.rpm >= Fmt0(w[1].rpm)]_vars

\* a record of peak G 4.04 g, its window closed by a loop() that read the ball
\* at rest and spinning slower than at the trigger
C35_Witness ==
    /\ hist.step = "tick"
    /\ shotCount >= 1
    /\ Shots(out) # {}
    /\ shots[shotCount - 1].peakG = 4040
    /\ Norm3(imu[1]) < IMPACT_THRESH
    /\ filtRPM < shots[shotCount - 1].peakRPM
    /\ hist.window[1].rpm > 0

\* C36: a sleeping device wakes only when the button is pressed after having
\* been released: the button still held from the sleep gesture fires no wake.
C36_WakeNeedsNewPress ==
    [][WakeReturned => hist.pin = "up"]_vars

\* the orders in which the three dominance checks can be made
CheckOrders == {o \in [1..3 -> 1..3] : {o[1], o[2], o[3]} = 1..3}

\* classifySpin with its three dominance checks made in the given order
classifyIn(order, g, rpm) ==
    LET total == Abs(g[1]) + Abs(g[2]) + Abs(g[3])
        dominant(i) == 2 * Abs(g[i]) > total
        label(i) == IF i = 1 THEN (IF g[1] > 0 THEN "TOPSPIN" ELSE "BACKSPIN")
                    ELSE IF i = 2 THEN (IF g[2] > 0 THEN "SIDE_R" ELSE "SIDE_L")
                    ELSE "SLICE"
    IN  IF rpm < 50 THEN "FLAT"
        ELSE IF total < 100 THEN "FLAT"
        ELSE IF dominant(order[1]) THEN label(order[1])
        ELSE IF dominant(order[2]) THEN label(order[2])
        ELSE IF dominant(order[3]) THEN label(order[3])
        ELSE "MIXED"

\* C37: classifySpin returns what it would return with its dominance checks in
\* any other order, no two of the axis labels being open to the same input,
\* and it returns TOPSPIN or BACKSPIN for no input with gx = 0.
C37_OrderIndependence ==
    probe # NoProbe =>
        /\ \A o \in CheckOrders : probe.res = classifyIn(o, probe.g, probe.rpm)
        /\ probe.res \in AxisLabel.x => probe.g[1] # 0

\* x and y share the total half and half, at a spin above the RPM floor
C37_Witness ==
    /\ probe # NoProbe
    /\ probe.rpm >= 50
    /\ probe.g[1] = probe.g[2]
    /\ probe.g[1] > 0
    /\ probe.g[3] = 0
    /\ probe.res = "MIXED"

\* C38: every component of the gyro bias estimate stays below 0.15 rad/s in
\* magnitude, and a loop() that reads a raw rate of 0.25 rad/s or more is left
\* with a corrected rate above the 0.10 rad/s dead zone and integrates it.
C38_BiasBound ==
    [][LoopRan =>
          /\ \A i \in 1..3 : Abs(gyroBias'[i]) < 150000
          /\ Norm3(RawRate(imu'[2])) >= 250000 =>
                /\ DeadZone(Norm3(Omega(imu'[2], gyroBias')))
                /\ orient' # orient]_vars

\* a bias settled above 0.10 rad/s on two axes, and a loop() that reads
\* 0.252 rad/s and integrates a corrected rate of less than 0.12 rad/s
C38_Witness ==
    /\ hist.step = "tick"
    /\ imu[2] = GyroNudge
    /\ Abs(gyroBias[2]) > 100000
    /\ Abs(gyroBias[3]) > 100000
    /\ Norm3(Omega(imu[2], gyroBias)) < 120000
    /\ Norm3(Omega(imu[2], gyroBias)) > 100000

\* C39: while peak tracking is active the window start equals the last-impact
\* timestamp, and the timestamp of a shot record is the start of the window
\* that the loop() writing it closed: the time of that window's trigger.
C39_TrackingTimestamp ==
    [][ /\ trackingPeak' => peakTrackStartMs' = lastImpactMs'
        /\ Committed =>
              /\ trackingPeak
              /\ shots'[shotCount].timestamp = peakTrackStartMs
              /\ hist.trigAt # -1
              /\ shots'[shotCount].timestamp = Millis(hist.trigAt) ]_vars

\* a record written after wake for a window opened before sleep, by a loop()
\* that reads the ball at rest
C39_Witness ==
    /\ hist.step = "tick"
    /\ hist.sinceWake = 1
    /\ shotCount >= 1
    /\ Shots(out) # {}
    /\ ~trackingPeak
    /\ shots[shotCount - 1].timestamp = lastImpactMs
    /\ Elapsed(Millis(now), lastImpactMs) > 1000

=============================================================================
